---------------------------- MODULE Spec2Model ----------------------------
(***************************************************************************)
(* A model of asciigen: the character renderer's cache and tiling, the     *)
(* pixel-fidelity fitness evaluators, the genetic search engine and the    *)
(* brute-force search engine.                                              *)
(*                                                                         *)
(* Numbers.  Pixel intensities are the u8 values of the code.  An f64      *)
(* fitness is modelled exactly as a reduced fraction <<n, d>> standing for *)
(* n / (SCALE * d): scores are sums of +1.0 and of penalties 0.01 and      *)
(* 0.005, all whole multiples of 1/SCALE.  A draw rng.gen::<f64>() < p is  *)
(* a nondeterministic boolean restricted to the outcomes p allows.         *)
(*                                                                         *)
(* The font file is not part of the sources, so the rendered glyph of      *)
(* every non-space character is an arbitrary bitmap chosen in the initial  *)
(* state; the space glyph has no outline and renders blank.                *)
(***************************************************************************)
EXTENDS Integers, Sequences, FiniteSets, TLC

VARIABLES
    white_background,   \* the background-mode flag given to the constructors
    char_cache,         \* AsciiGenerator.char_cache: code -> glyph bitmap
    target_image,       \* the target bitmap [w, h, px]
    width, height,      \* grid size in characters
    out,                \* the last call of a pure operation: its arguments and what it returned
    population,         \* GeneticAlgorithm.population: a sequence of [chars, fitness]
    population_size,    \* GeneticAlgorithm.population_size
    init_char,          \* the seed character given to GeneticAlgorithm::new, or NoSeed
    generations,        \* the argument of evolve
    generation,         \* evolve's loop counter
    pc,                 \* where evolve (or generate) is
    result,             \* what evolve (or generate) returned
    best_evaluated,     \* history: the highest fitness evaluate_population has assigned in this run
    best_chars,         \* generate's local best_chars
    position,           \* generate's loop counter
    progress_callback,  \* generate's argument progress_callback: "Some" or "None"
    progress_calls,     \* the invocations of the caller's progress callback, in order
    evolve_calls,       \* history: the passes evolve has made, in order
    thread_pool,        \* the process-wide rayon pool: its number of threads, or NoPool
    fitness_values      \* evaluate_population's parallel map: the state or the result of every task

inputVars == <<white_background, char_cache, target_image, width, height>>
engineVars == <<population, population_size, init_char, generations, generation, pc, result,
                best_evaluated, evolve_calls>>
engineVarsButPc == <<population, population_size, init_char, generations, generation,
                     best_evaluated, result, evolve_calls>>
poolVars == <<thread_pool, fitness_values>>
generateVars == <<best_chars, position, progress_callback, progress_calls>>
vars == <<white_background, char_cache, target_image, width, height, out,
          population, population_size, init_char, generations, generation, pc, result,
          best_evaluated, best_chars, position, progress_callback, progress_calls,
          evolve_calls, thread_pool, fitness_values>>

\* no pure operation has been called
NoCall == [op |-> "none"]

NoSeed == -1

\* the global pool has not been built
NoPool == 0

----------------------------------------------------------------------------
(* Bounds of the model *)

\* number of characters of ALLOWED_CHARS the model uses (a prefix of the source's list)
AlphabetSize == 3

\* intensities a target pixel is drawn from: blank, a mid grey, the light-mode
\* threshold, white (one value of every class the two modes and the tolerance tell apart)
Levels == {0, 100, 200, 255}

\* the largest population of the small-population engine runs
MaxPopulation == 2

\* the largest generation count given to evolve
MaxGenerations == 2

\* the longest character sequence given to the operations on individuals
MaxLen == 2

\* the longest character sequence given to the renderer's operations
MaxText == 4

\* intensities a rendered glyph pixel is drawn from: uncovered and fully covered
GlyphLevels == {0, 255}

----------------------------------------------------------------------------
(* Program constants *)

SPACE == 32

AllowedCharsSource ==
    <<32, 60, 62, 44, 46, 47, 63, 92, 124, 91, 93, 123, 125, 45, 95, 61, 43,
      65, 118, 86, 105, 73, 111, 79, 120, 88, 119, 87, 77, 96, 126, 59, 58,
      39, 34, 33, 64, 35, 36, 37, 94, 38, 42, 40, 41, 56>>

ALLOWED_CHARS == SubSeq(AllowedCharsSource, 1, AlphabetSize)

Alphabet == {ALLOWED_CHARS[i] : i \in 1..Len(ALLOWED_CHARS)}

\* cell size in pixels (scaled down from the 12pt font's cell)
char_width == 2
char_height == 1

\* fitness arithmetic: one unit is 1/SCALE
SCALE == 1000
TOLERANCE == 30
PENALTY_GA == 10
PENALTY_BF == 5

----------------------------------------------------------------------------
(* Helpers: minimum, absolute value, fractions *)

Min(a, b) == IF a < b THEN a ELSE b

Abs(a) == IF a < 0 THEN -a ELSE a

RECURSIVE GCD(_, _)
GCD(a, b) == IF b = 0 THEN a ELSE GCD(b, a % b)

\* the f64 value n / (SCALE * d), d > 0, as a reduced fraction
Frac(n, d) ==
    LET g == GCD(Abs(n), SCALE * d)
    IN  IF n = 0 THEN <<0, 1>> ELSE <<n \div g, (SCALE * d) \div g>>

ZERO == <<0, 1>>
ONE == <<1, 1>>
NAN == <<0, 0>>
POS_INF == <<1, 0>>
NEG_INF == <<-1, 0>>

\* f64 division score / count: dividing by 0.0 gives NaN or an infinity
FDiv(n, d) ==
    IF d # 0 THEN Frac(n, d)
    ELSE IF n = 0 THEN NAN
    ELSE IF n > 0 THEN POS_INF ELSE NEG_INF

\* f64 comparisons: every comparison with NaN is false
FLess(a, b) ==
    IF a = NAN \/ b = NAN THEN FALSE
    ELSE IF a[2] = 0 /\ b[2] = 0 THEN a[1] < b[1]
    ELSE a[1] * b[2] < b[1] * a[2]

FLeq(a, b) == a # NAN /\ b # NAN /\ (a = b \/ FLess(a, b))

\* f64::max(self, 0.0): NaN is ignored in favour of the other operand
FMax0(a) == IF a = NAN \/ FLess(a, ZERO) THEN ZERO ELSE a

\* if fitness < 0.0 { 0.0 } else { fitness }
FClamp0(a) == IF FLess(a, ZERO) THEN ZERO ELSE a

----------------------------------------------------------------------------
(* Images *)

get_pixel(img, x, y) == img.px[y * img.w + x + 1]

BlankGlyph == [k \in 1..(char_width * char_height) |-> 0]

\* generate_ascii_image_with_background: the cell of pixel (x, y) is
\* (x / char_width, y / char_height); the i-th code is copied to cell
\* (i % width, i / width) while i / width < height.
AsciiPixel(chars, w, h, white, cache, x, y) ==
    LET col == x \div char_width
        row == y \div char_height
        i   == row * w + col
        bg  == IF white THEN 255 ELSE 0
    IN  IF i < Len(chars) /\ chars[i + 1] \in DOMAIN cache
        THEN LET p == cache[chars[i + 1]][(y % char_height) * char_width + (x % char_width) + 1]
             IN  IF white THEN 255 - p ELSE p
        ELSE bg

generate_ascii_image_with_background(chars, w, h, white, cache) ==
    [w  |-> w * char_width,
     h  |-> h * char_height,
     px |-> [k \in 1..(w * char_width * h * char_height) |->
                AsciiPixel(chars, w, h, white, cache,
                           (k - 1) % (w * char_width), (k - 1) \div (w * char_width))]]

generate_ascii_image(chars, w, h, cache) ==
    generate_ascii_image_with_background(chars, w, h, FALSE, cache)

----------------------------------------------------------------------------
(* Background statistics (GeneticAlgorithm::new, BruteForceGenerator::new) *)

background_threshold(white) == IF white THEN 200 ELSE 50

\* the mode-aware classification of count_non_background_pixels
is_non_background(intensity, threshold, white) ==
    IF white THEN intensity < threshold ELSE intensity > threshold

\* the count the loop of count_non_background_pixels accumulates over the pixels
\* lo..hi (summed by halves, so that a bitmap of hundreds of pixels is counted
\* without deep recursion)
RECURSIVE CountBetween(_, _, _, _, _)
CountBetween(px, lo, hi, threshold, white) ==
    IF lo > hi THEN 0
    ELSE IF lo = hi THEN (IF is_non_background(px[lo], threshold, white) THEN 1 ELSE 0)
    ELSE LET mid == (lo + hi) \div 2
         IN  CountBetween(px, lo, mid, threshold, white)
             + CountBetween(px, mid + 1, hi, threshold, white)

ga_count_non_background_pixels(img, threshold, white) ==
    CountBetween(img.px, 1, Len(img.px), threshold, white)

\* a count that takes the pixels above the threshold in both modes
count_above_threshold(img, thr, white) ==
    Cardinality({k \in 1..Len(img.px) : img.px[k] > thr})

bf_count_non_background_pixels(img, threshold, white) ==
    CountBetween(img.px, 1, Len(img.px), threshold, white)

----------------------------------------------------------------------------
(* Fitness evaluators *)

\* the classification the evaluators apply to both the candidate's and the
\* target's pixel: above the threshold, whatever the mode
is_lit(pixel, threshold) == pixel > threshold

\* one pixel's contribution to the score, in units of 1/SCALE
PixelScore(ascii_pixel, target_pixel, threshold, penalty) ==
    IF is_lit(target_pixel, threshold)
    THEN (IF Abs(ascii_pixel - target_pixel) < TOLERANCE THEN SCALE ELSE 0)
    ELSE IF is_lit(ascii_pixel, threshold) THEN -penalty ELSE 0

\* the score summed over the overlap min_width x min_height, row by row
RECURSIVE GridScore(_, _, _, _, _, _, _)
GridScore(ascii, target, min_width, min_height, threshold, penalty, k) ==
    IF k >= min_width * min_height THEN 0
    ELSE PixelScore(get_pixel(ascii, k % min_width, k \div min_width),
                    get_pixel(target, k % min_width, k \div min_width),
                    threshold, penalty)
         + GridScore(ascii, target, min_width, min_height, threshold, penalty, k + 1)


\* calculate_fitness_for_chars_static without its zero-count return
calculate_fitness_without_zero_check(chars, cache, target, w, h, total_non_background_pixels, threshold) ==
    LET ascii_image == generate_ascii_image(chars, w, h, cache)
        min_width   == Min(ascii_image.w, target.w)
        min_height  == Min(ascii_image.h, target.h)
        score       == GridScore(ascii_image, target, min_width, min_height, threshold, PENALTY_GA, 0)
    IN  FMax0(FDiv(score, total_non_background_pixels))

\* GeneticAlgorithm::calculate_fitness_for_chars_static
calculate_fitness_for_chars_static(chars, cache, target, w, h, total_non_background_pixels, threshold) ==
    LET ascii_image == generate_ascii_image(chars, w, h, cache)
        min_width   == Min(ascii_image.w, target.w)
        min_height  == Min(ascii_image.h, target.h)
        score       == GridScore(ascii_image, target, min_width, min_height, threshold, PENALTY_GA, 0)
    IN  IF total_non_background_pixels = 0 THEN ZERO
        ELSE FMax0(FDiv(score, total_non_background_pixels))

\* BruteForceGenerator::calculate_fitness
bf_calculate_fitness(chars, cache, target, w, h, total_non_background_pixels, threshold) ==
    LET ascii_image == generate_ascii_image(chars, w, h, cache)
        min_width   == Min(ascii_image.w, target.w)
        min_height  == Min(ascii_image.h, target.h)
        score       == GridScore(ascii_image, target, min_width, min_height, threshold, PENALTY_BF, 0)
    IN  IF total_non_background_pixels = 0 THEN ZERO
        ELSE FClamp0(FDiv(score, total_non_background_pixels))

\* the pixels (x, y) of the target in the cell's region, clamped to the target
CellRegion(target, row, col) ==
    LET start_x == col * char_width
        start_y == row * char_height
        end_x   == Min(start_x + char_width, target.w)
        end_y   == Min(start_y + char_height, target.h)
    IN  {<<x, y>> \in (0..(target.w - 1)) \X (0..(target.h - 1)) :
            /\ start_x <= x /\ x < end_x
            /\ start_y <= y /\ y < end_y}

RECURSIVE SumOver(_, _)
SumOver(S, f) ==
    IF S = {} THEN 0
    ELSE LET e == CHOOSE e \in S : TRUE
         IN  f[e] + SumOver(S \ {e}, f)

\* the pixels of the region that the single-character image covers
CellCovered(target, row, col) ==
    {p \in CellRegion(target, row, col) :
        /\ p[1] - col * char_width < char_width
        /\ p[2] - row * char_height < char_height}

CellRelevant(target, row, col, threshold) ==
    {p \in CellCovered(target, row, col) : is_lit(get_pixel(target, p[1], p[2]), threshold)}

CellScore(cache, target, row, col, test_char, threshold) ==
    LET single_char_image == generate_ascii_image(<<test_char>>, 1, 1, cache)
        R == CellCovered(target, row, col)
    IN  SumOver(R, [p \in R |->
            PixelScore(get_pixel(single_char_image, p[1] - col * char_width, p[2] - row * char_height),
                       get_pixel(target, p[1], p[2]), threshold, PENALTY_BF)])


\* calculate_fitness_for_position without the preference for the space
position_fitness_without_space_rule(cache, target, row, col, test_char, threshold) ==
    LET score == CellScore(cache, target, row, col, test_char, threshold)
        total_relevant_pixels == Cardinality(CellRelevant(target, row, col, threshold))
    IN  IF total_relevant_pixels > 0
        THEN FClamp0(FDiv(score, total_relevant_pixels))
        ELSE ZERO

\* BruteForceGenerator::calculate_fitness_for_position
calculate_fitness_for_position(cache, target, row, col, test_char, threshold) ==
    LET score == CellScore(cache, target, row, col, test_char, threshold)
        total_relevant_pixels == Cardinality(CellRelevant(target, row, col, threshold))
    IN  IF total_relevant_pixels > 0
        THEN FClamp0(FDiv(score, total_relevant_pixels))
        ELSE (IF test_char = SPACE THEN ONE ELSE ZERO)

----------------------------------------------------------------------------
(* The inputs a run is constructed from *)

\* every candidate grid of n characters of the alphabet
Grids(n) == [1..n -> Alphabet]

\* every cache the renderer can build: the space glyph is blank
Fonts ==
    {f \in [Alphabet -> [1..(char_width * char_height) -> GlyphLevels]] : f[SPACE] = BlankGlyph}

\* every target bitmap of w x h pixels
Targets(w, h) == {[w |-> w, h |-> h, px |-> p] : p \in [1..(w * h) -> Levels]}

\* the fields the constructors derive from the target and the mode
threshold == background_threshold(white_background)

ga_total_non_background_pixels ==
    ga_count_non_background_pixels(target_image, threshold, white_background)

bf_total_non_background_pixels ==
    bf_count_non_background_pixels(target_image, threshold, white_background)

\* the pixels of the overlap an evaluation classifies as foreground (target_is_lit)
OverlapLit(target, w, h, thr) ==
    {p \in (0..(Min(w * char_width, target.w) - 1)) \X (0..(Min(h * char_height, target.h) - 1)) :
        is_lit(get_pixel(target, p[1], p[2]), thr)}

----------------------------------------------------------------------------
(* Random draws *)

\* the probabilities of the engine, in thousandths (GeneticAlgorithm::new)
mutation_rate == 10
crossover_rate == 800
init_random_rate == 50
PROB_ONE == 1000

\* the outcomes of rng.gen::<f64>() < num/den, the draw being in [0, 1):
\* never true for a probability <= 0 (or NaN), never false for one >= 1
Coin(num, den) ==
    IF den = 0 THEN {FALSE}
    ELSE {b \in BOOLEAN : (b => num > 0) /\ (~b => num < den)}

\* the characters other than the space, non_space_chars
NonSpaceChars == {c \in Alphabet : c # SPACE}

\* one biased draw: the space with the background probability, else a non-space character
BiasedChars(bp) ==
    (IF TRUE \in Coin(bp[1], bp[2]) THEN {SPACE} ELSE {})
    \cup (IF FALSE \in Coin(bp[1], bp[2]) THEN NonSpaceChars ELSE {})

----------------------------------------------------------------------------
(* Individual *)

\* Individual::new
Individual(chars) == [chars |-> chars, fitness |-> ZERO]

\* Individual::new_random_with_background_prob: every individual it can return
new_random_with_background_prob(size, bp) ==
    {Individual(c) : c \in [1..size -> BiasedChars(bp)]}

\* the byte an init_char is cast to (init_char as u8), replaced by the space
\* when it is not an allowed character
init_byte(ch) ==
    LET byte == ch % 256
    IN  IF byte \in Alphabet THEN byte ELSE SPACE

\* Individual::new_with_init_char: every individual it can return
new_with_init_char(size, ch) ==
    {Individual(c) : c \in [1..size ->
        (IF TRUE \in Coin(init_random_rate, PROB_ONE) THEN Alphabet ELSE {})
        \cup (IF FALSE \in Coin(init_random_rate, PROB_ONE) THEN {init_byte(ch)} ELSE {})]}


\* crossover that cuts both children to the shorter parent's length
crossover_truncated(self, other, swap) ==
    LET n == Min(Len(self.chars), Len(other.chars))
        child1_chars == [i \in 1..n |-> IF swap[i] THEN other.chars[i] ELSE self.chars[i]]
        child2_chars == [i \in 1..n |-> IF swap[i] THEN self.chars[i] ELSE other.chars[i]]
    IN  <<Individual(child1_chars), Individual(child2_chars)>>

\* crossover that swaps into child1 only
crossover_one_sided(self, other, swap) ==
    LET n == Min(Len(self.chars), Len(other.chars))
        child1_chars == [i \in 1..Len(self.chars) |->
                            IF i <= n /\ swap[i] THEN other.chars[i] ELSE self.chars[i]]
    IN  <<Individual(child1_chars), Individual(other.chars)>>

\* Individual::crossover with the draws given: swap[i] is the draw at position i
crossover(self, other, swap) ==
    LET n == Min(Len(self.chars), Len(other.chars))
        child1_chars == [i \in 1..Len(self.chars) |->
                            IF i <= n /\ swap[i] THEN other.chars[i] ELSE self.chars[i]]
        child2_chars == [i \in 1..Len(other.chars) |->
                            IF i <= n /\ swap[i] THEN self.chars[i] ELSE other.chars[i]]
    IN  <<Individual(child1_chars), Individual(child2_chars)>>

\* every pair of children crossover can return at a rate
CrossoverOutcomes(self, other, rate) ==
    {crossover(self, other, swap) :
        swap \in [1..Min(Len(self.chars), Len(other.chars)) -> Coin(rate, PROB_ONE)]}


\* mutation drawing from the cached codes up to 0x7F instead of the allowed ones
MutatedCharsAnyCode(char, rate, bp) ==
    {char} \cup BiasedChars(bp) \cup {127}

\* the values one position can have after mutate_with_background_prob
MutatedChars(char, rate, bp) ==
    (IF FALSE \in Coin(rate, PROB_ONE) THEN {char} ELSE {})
    \cup (IF TRUE \in Coin(rate, PROB_ONE) THEN BiasedChars(bp) ELSE {})

\* Individual::mutate_with_background_prob: every individual it can leave
mutate_with_background_prob(ind, rate, bp) ==
    {[ind EXCEPT !.chars = c] :
        c \in {m \in [1..Len(ind.chars) ->
                          UNION {MutatedChars(ind.chars[i], rate, bp) : i \in 1..Len(ind.chars)}] :
                  \A i \in 1..Len(ind.chars) : m[i] \in MutatedChars(ind.chars[i], rate, bp)}}

----------------------------------------------------------------------------
(* GeneticAlgorithm *)

\* the fields GeneticAlgorithm::new derives
total_non_background_pixels == ga_total_non_background_pixels

\* the fraction of foreground pixels, in place of the fraction of background pixels
foreground_prob ==
    <<total_non_background_pixels, target_image.w * target_image.h>>

\* background_prob = (total_pixels - total_non_background_pixels) / total_pixels
background_prob ==
    <<target_image.w * target_image.h - total_non_background_pixels,
      target_image.w * target_image.h>>

elite_size == population_size \div 10

\* the individuals GeneticAlgorithm::new can put into the population
InitialIndividuals(size, seed, bp) ==
    IF seed = NoSeed THEN new_random_with_background_prob(size, bp)
    ELSE new_with_init_char(size, seed)


tournament_size == 3

\* the loop of tournament_selection: the index kept after candidates k..tournament_size
RECURSIVE TournamentBest(_, _, _, _)
TournamentBest(pop, draws, k, best) ==
    IF k > tournament_size THEN best
    ELSE TournamentBest(pop, draws, k + 1,
                        IF FLess(pop[best].fitness, pop[draws[k]].fitness) THEN draws[k] ELSE best)

\* a tournament that keeps the candidate of lower fitness
RECURSIVE TournamentWorst(_, _, _, _)
TournamentWorst(pop, draws, k, best) ==
    IF k > tournament_size THEN best
    ELSE TournamentWorst(pop, draws, k + 1,
                         IF FLess(pop[draws[k]].fitness, pop[best].fitness) THEN draws[k] ELSE best)

tournament_selection_least(pop, draws) == TournamentWorst(pop, draws, 2, draws[1])

\* tournament_selection with its draws given: the index it selects
tournament_selection(pop, draws) == TournamentBest(pop, draws, 2, draws[1])

\* the draws of one tournament: tournament_size indices, with replacement
TournamentDraws(pop) == [1..tournament_size -> 1..Len(pop)]

\* every individual tournament_selection can return
TournamentOutcomes(pop) == {pop[tournament_selection(pop, d)] : d \in TournamentDraws(pop)}

\* every pair (child1, child2) one pass of create_new_generation's loop can make
OffspringPairs(pop, bp) ==
    UNION {UNION {mutate_with_background_prob(pair[1], mutation_rate, bp)
                    \X mutate_with_background_prob(pair[2], mutation_rate, bp) :
                  pair \in CrossoverOutcomes(parents[1], parents[2], crossover_rate)} :
           parents \in TournamentOutcomes(pop) \X TournamentOutcomes(pop)}


\* pushing both children without looking at the size
PushBothChildren(new_population, pair, size) ==
    new_population \o <<pair[1], pair[2]>>

\* pushing child1, and child2 when there is room
PushChildren(new_population, pair, size) ==
    IF Len(new_population) + 1 < size
    THEN new_population \o <<pair[1], pair[2]>>
    ELSE Append(new_population, pair[1])

\* the while loop of create_new_generation
RECURSIVE FillPopulation(_, _, _)
FillPopulation(new_population, pairs, size) ==
    IF ~(Len(new_population) < size) THEN {new_population}
    ELSE UNION {FillPopulation(PushChildren(new_population, pair, size), pairs, size) :
                pair \in pairs}


\* elite rebuilt from their characters, losing the fitness
KeepEliteChars(pop, n) == [i \in 1..n |-> Individual(pop[i].chars)]

\* the elite individuals kept: population[0..elite_size]
KeepElite(pop, n) == SubSeq(pop, 1, n)

\* create_new_generation: every population it can build
create_new_generation(pop, size, elite, bp) ==
    FillPopulation(KeepElite(pop, elite), OffspringPairs(pop, bp), size)

\* the stable descending sort of sort_by(|a, b| b.fitness.partial_cmp(&a.fitness))
RECURSIVE InsertDesc(_, _)
InsertDesc(sorted, x) ==
    IF sorted = <<>> THEN <<x>>
    ELSE IF FLess(Head(sorted).fitness, x.fitness) THEN <<x>> \o sorted
    ELSE <<Head(sorted)>> \o InsertDesc(Tail(sorted), x)

RECURSIVE SortDesc(_)
SortDesc(pop) ==
    IF pop = <<>> THEN <<>>
    ELSE InsertDesc(SortDesc(SubSeq(pop, 1, Len(pop) - 1)), pop[Len(pop)])

\* the fitness evaluate_population computes for one individual
FitnessOf(chars) ==
    calculate_fitness_for_chars_static(chars, char_cache, target_image, width, height,
                                       total_non_background_pixels, threshold)


\* evaluate_population whose sort places equal individuals in reverse order
RECURSIVE InsertBeforeEqual(_, _)
InsertBeforeEqual(sorted, x) ==
    IF sorted = <<>> THEN <<x>>
    ELSE IF FLeq(Head(sorted).fitness, x.fitness) THEN <<x>> \o sorted
    ELSE <<Head(sorted)>> \o InsertBeforeEqual(Tail(sorted), x)

RECURSIVE SortUnstable(_)
SortUnstable(pop) ==
    IF pop = <<>> THEN <<>>
    ELSE InsertBeforeEqual(SortUnstable(SubSeq(pop, 1, Len(pop) - 1)), pop[Len(pop)])

evaluate_population_unstable(pop) ==
    SortUnstable([i \in 1..Len(pop) |-> [pop[i] EXCEPT !.fitness = FitnessOf(pop[i].chars)]])

\* evaluate_population: the fitness of every individual, then the sort
evaluate_population(pop) ==
    SortDesc([i \in 1..Len(pop) |-> [pop[i] EXCEPT !.fitness = FitnessOf(pop[i].chars)]])


----------------------------------------------------------------------------
(* SpecFitness: the fitness evaluators applied to every grid, target, font and mode *)

\* no genetic engine is constructed in this run
EngineIdle ==
    /\ population = <<>>
    /\ population_size = 0
    /\ init_char = NoSeed
    /\ generations = 0
    /\ generation = 0
    /\ pc = "idle"
    /\ result = <<>>
    /\ best_evaluated = ZERO
    /\ evolve_calls = <<>>

\* the global pool has not been built and no parallel map is running
PoolIdle ==
    /\ thread_pool = NoPool
    /\ fitness_values = <<>>

\* no brute-force generate is running
GenerateIdle ==
    /\ best_chars = <<>>
    /\ position = 0
    /\ progress_callback = "None"
    /\ progress_calls = <<>>

InitFitness ==
    /\ white_background \in BOOLEAN
    /\ char_cache \in Fonts
    /\ width = 2
    /\ height = 1
    /\ \E tw \in {width * char_width - 1, width * char_width} :
          target_image \in Targets(tw, height * char_height)
    /\ out = NoCall
    /\ EngineIdle
    /\ GenerateIdle
    /\ PoolIdle

\* GeneticAlgorithm::calculate_fitness_for_chars_static on the engine's fields
GAFitness ==
    /\ out = NoCall
    /\ \E chars \in Grids(width * height) :
          out' = [op      |-> "ga_fitness",
                  chars   |-> chars,
                  lit     |-> IF ga_total_non_background_pixels = 0 THEN {}
                              ELSE OverlapLit(target_image, width, height, threshold),
                  fitness |-> calculate_fitness_for_chars_static(
                                  chars, char_cache, target_image, width, height,
                                  ga_total_non_background_pixels, threshold)]
    /\ UNCHANGED <<inputVars, poolVars, generateVars, engineVars>>

\* BruteForceGenerator::calculate_fitness on the generator's fields
BFFitness ==
    /\ out = NoCall
    /\ \E chars \in Grids(width * height) :
          out' = [op      |-> "bf_fitness",
                  chars   |-> chars,
                  lit     |-> IF bf_total_non_background_pixels = 0 THEN {}
                              ELSE OverlapLit(target_image, width, height, threshold),
                  fitness |-> bf_calculate_fitness(
                                  chars, char_cache, target_image, width, height,
                                  bf_total_non_background_pixels, threshold)]
    /\ UNCHANGED <<inputVars, poolVars, generateVars, engineVars>>

\* BruteForceGenerator::calculate_fitness_for_position
PositionFitness ==
    /\ out = NoCall
    /\ \E row \in 0..(height - 1), col \in 0..(width - 1), test_char \in Alphabet :
          out' = [op        |-> "position_fitness",
                  row       |-> row,
                  col       |-> col,
                  test_char |-> test_char,
                  lit       |-> CellRelevant(target_image, row, col, threshold),
                  fitness   |-> calculate_fitness_for_position(
                                    char_cache, target_image, row, col, test_char, threshold)]
    /\ UNCHANGED <<inputVars, poolVars, generateVars, engineVars>>

\* the pixels of the overlap where the rendered grid is lit and the target is not
FalsePositives(chars, cache, target, w, h, thr) ==
    LET ascii_image == generate_ascii_image(chars, w, h, cache)
    IN  {p \in (0..(Min(ascii_image.w, target.w) - 1)) \X (0..(Min(ascii_image.h, target.h) - 1)) :
            /\ ~is_lit(get_pixel(target, p[1], p[2]), thr)
            /\ is_lit(get_pixel(ascii_image, p[1], p[2]), thr)}

\* both engines built on the same target and mode evaluate the same grid
BothFitness ==
    /\ out = NoCall
    /\ \E chars \in Grids(width * height) :
          out' = [op              |-> "both_fitness",
                  chars           |-> chars,
                  false_positives |-> FalsePositives(chars, char_cache, target_image,
                                                     width, height, threshold),
                  ga_fitness      |-> calculate_fitness_for_chars_static(
                                          chars, char_cache, target_image, width, height,
                                          ga_total_non_background_pixels, threshold),
                  bf_fitness      |-> bf_calculate_fitness(
                                          chars, char_cache, target_image, width, height,
                                          bf_total_non_background_pixels, threshold)]
    /\ UNCHANGED <<inputVars, poolVars, generateVars, engineVars>>

NextFitness == GAFitness \/ BFFitness \/ PositionFitness \/ BothFitness

SpecFitness == InitFitness /\ [][NextFitness]_vars

----------------------------------------------------------------------------
(* Claims about the fitness evaluators (SpecFitness) *)

IsGridFitness == out.op \in {"ga_fitness", "bf_fitness"}

InUnitInterval(f) == FLeq(ZERO, f) /\ FLeq(f, ONE)

\* the total the evaluation that produced out divided by
TotalOf(op) ==
    IF op = "ga_fitness" THEN ga_total_non_background_pixels
    ELSE bf_total_non_background_pixels

\* C1: whatever the grid, the target and the mode, the whole-grid fitness of the
\* genetic evaluator and of the brute-force evaluator is at least 0 and at most 1.
C1_FitnessInUnitInterval == IsGridFitness => InUnitInterval(out.fitness)

\* the pixels of the overlap that are foreground for the selected mode
OverlapForeground(target, w, h, thr, white) ==
    {p \in (0..(Min(w * char_width, target.w) - 1)) \X (0..(Min(h * char_height, target.h) - 1)) :
        is_non_background(get_pixel(target, p[1], p[2]), thr, white)}

\* C2: every fitness evaluation, whole-grid or single-cell, classifies as foreground
\* exactly the target pixels that are foreground for the mode: above the threshold
\* on a dark background, below it on a light background, as the pixel count does.
C2_ClassificationFollowsMode ==
    /\ IsGridFitness /\ TotalOf(out.op) # 0 =>
          out.lit = OverlapForeground(target_image, width, height, threshold, white_background)
    /\ out.op = "position_fitness" =>
          out.lit = {p \in CellCovered(target_image, out.row, out.col) :
                        is_non_background(get_pixel(target_image, p[1], p[2]), threshold, white_background)}

\* C3: with no foreground pixel in the target, the whole-grid fitness is exactly 0
\* for every grid, in both evaluators (the division by the count is never reached).
C3_ZeroForegroundGivesZero ==
    IsGridFitness /\ TotalOf(out.op) = 0 => out.fitness = ZERO

\* a grid with ink was evaluated against a target that has no foreground pixel
C3_Witness ==
    /\ IsGridFitness
    /\ TotalOf(out.op) = 0
    /\ \E i \in 1..Len(out.chars) : char_cache[out.chars[i]] # BlankGlyph
    /\ out.fitness = ZERO

\* the single-cell score written out: matches minus 0.005 per false positive
CellMatches(row, col, test_char) ==
    {p \in CellCovered(target_image, row, col) :
        /\ get_pixel(target_image, p[1], p[2]) > threshold
        /\ Abs(char_cache[test_char][(p[2] - row * char_height) * char_width + (p[1] - col * char_width) + 1]
               - get_pixel(target_image, p[1], p[2])) < 30}

CellFalsePositives(row, col, test_char) ==
    {p \in CellCovered(target_image, row, col) :
        /\ ~(get_pixel(target_image, p[1], p[2]) > threshold)
        /\ char_cache[test_char][(p[2] - row * char_height) * char_width + (p[1] - col * char_width) + 1]
               > threshold}

----------------------------------------------------------------------------
(* Spec: the genetic engine, from construction through evolve *)

\* seeds tried: none, an allowed character ('>'), a character that is not allowed ('z')
Seeds == {NoSeed, 62, 122}

\* targets of the engine runs: blank, white, one pixel of every level
EngineTargets ==
    {[w |-> 4, h |-> 1, px |-> p] :
        p \in {<<0, 0, 0, 0>>, <<255, 255, 255, 255>>, <<0, 100, 255, 200>>}}

\* fonts of the engine runs: '<' inks its left pixel, '>' its left pixel or both
EngineFonts ==
    {f \in Fonts : f[60] = <<255, 0>> /\ f[62] \in {<<255, 0>>, <<255, 255>>}}

\* GeneticAlgorithm::new
InitEngine(sizes, w, h, targets, seeds, fonts, counts) ==
    /\ white_background \in BOOLEAN
    /\ char_cache \in fonts
    /\ width = w
    /\ height = h
    /\ target_image \in targets
    /\ population_size \in sizes
    /\ init_char \in seeds
    /\ population \in [1..population_size ->
                          InitialIndividuals(width * height, init_char, background_prob)]
    /\ generations \in counts
    /\ generation = 0
    /\ pc = "constructed"
    /\ result = <<>>
    /\ best_evaluated = ZERO
    /\ evolve_calls = <<>>
    /\ thread_pool = 1
    /\ fitness_values = <<>>
    /\ out = NoCall
    /\ GenerateIdle

Init == InitEngine(1..MaxPopulation, 2, 1, EngineTargets, Seeds, EngineFonts, 0..MaxGenerations)

\* the highest fitness among the individuals of pop and the fitness best
BestOf(pop, best) ==
    LET S == {best} \cup {pop[i].fitness : i \in 1..Len(pop)}
    IN  CHOOSE f \in S : \A g \in S : FLeq(g, f)

\* evolve is called: the loop over 0..generations starts at generation 0, and is
\* skipped when the range is empty
Evolve ==
    /\ pc = "constructed"
    /\ pc' = IF 0 < generations THEN "evaluate" ELSE "final"
    /\ generation' = 0
    /\ out' = NoCall
    /\ UNCHANGED <<inputVars, poolVars, generateVars, population, population_size, init_char,
                   generations, result, best_evaluated, evolve_calls>>

\* the loop body's evaluate_population
EvaluatePopulation ==
    /\ pc = "evaluate"
    /\ population' = evaluate_population(population)
    /\ best_evaluated' = BestOf(population', best_evaluated)
    /\ pc' = "breed"
    /\ evolve_calls' = Append(evolve_calls, "evaluate_population")
    /\ out' = NoCall
    /\ UNCHANGED <<inputVars, poolVars, generateVars, population_size, init_char, generations, generation, result>>

\* a loop that breeds after every generation, the last one too
breeds_after_every_generation(g, count) == g < count

\* the loop body's test: a new generation is created unless this is the last one
breeds_after_generation(g, count) == g < count - 1

\* the loop body's create_new_generation, unless this is the last generation
CreateNewGeneration ==
    /\ pc = "breed"
    /\ breeds_after_generation(generation, generations)
    /\ population' \in create_new_generation(population, population_size, elite_size, background_prob)
    /\ generation' = generation + 1
    /\ pc' = "evaluate"
    /\ evolve_calls' = Append(evolve_calls, "create_new_generation")
    /\ out' = NoCall
    /\ UNCHANGED <<inputVars, poolVars, generateVars, population_size, init_char, generations, result,
                   best_evaluated>>

\* the last generation: nothing is created and the loop ends
LastGeneration ==
    /\ pc = "breed"
    /\ ~breeds_after_generation(generation, generations)
    /\ generation' = generation + 1
    /\ pc' = "final"
    /\ out' = NoCall
    /\ UNCHANGED <<inputVars, poolVars, generateVars, population, population_size, init_char,
                   generations, result, best_evaluated, evolve_calls>>

\* the evaluate_population after the loop, the final println and the return of
\* population[0].  The println computes generations - 1 on a u32: with
\* generations = 0 the subtraction overflows, which panics in a build with
\* overflow checks and wraps in a build without them.
FinalEvaluate ==
    /\ pc = "final"
    /\ population' = evaluate_population(population)
    /\ best_evaluated' = BestOf(population', best_evaluated)
    /\ \/ /\ pc' = "done"
          /\ result' = population'[1]
       \/ /\ generations = 0
          /\ pc' = "panicked"
          /\ result' = result
    /\ evolve_calls' = Append(evolve_calls, "evaluate_population")
    /\ out' = NoCall
    /\ UNCHANGED <<inputVars, poolVars, generateVars, population_size, init_char, generations, generation>>

\* tournament_selection called on the current population
TournamentSelection ==
    /\ pc = "breed"
    /\ out = NoCall
    /\ \E draws \in TournamentDraws(population) :
          out' = [op       |-> "tournament_selection",
                  draws    |-> draws,
                  selected |-> population[tournament_selection(population, draws)]]
    /\ UNCHANGED <<inputVars, poolVars, generateVars, engineVars>>

EngineNext ==
    \/ Evolve
    \/ EvaluatePopulation
    \/ CreateNewGeneration
    \/ LastGeneration
    \/ FinalEvaluate

Next == EngineNext

Spec == Init /\ [][Next]_vars

\* the engine with tournament_selection also called from outside the loop
NextTournament == EngineNext \/ TournamentSelection

SpecTournament == Init /\ [][NextTournament]_vars

\* the engine with the smallest population that has an elite, on a grid of one
\* cell whose target is all foreground (so that no individual holds a space)
ElitePopulations == {10}

EliteTargets ==
    {[w |-> 2, h |-> 1, px |-> p] : p \in {<<0, 0>>, <<255, 255>>}}

EliteFonts == {f \in EngineFonts : f[62] = <<255, 255>>}

InitElite ==
    /\ InitEngine(ElitePopulations, 1, 1, EliteTargets, {NoSeed}, EliteFonts, {MaxGenerations})
    /\ background_prob[1] = 0

SpecElite == InitElite /\ [][Next]_vars

----------------------------------------------------------------------------
(* SpecCrossover: Individual::crossover applied to every pair of parents *)

NoTarget == [w |-> 0, h |-> 0, px |-> <<>>]

\* no bitmap, no grid: the run only exercises operations on individuals
InitIndividuals ==
    /\ white_background = FALSE
    /\ char_cache = [c \in Alphabet |-> BlankGlyph]
    /\ target_image = NoTarget
    /\ width = 0
    /\ height = 0
    /\ out = NoCall
    /\ EngineIdle
    /\ GenerateIdle
    /\ PoolIdle

\* every character sequence of at most MaxLen characters
CharSeqs == UNION {[1..n -> Alphabet] : n \in 0..MaxLen}

\* the crossover rates tried: 0.0, the engine's 0.8, and 1.0
Rates == {0, crossover_rate, PROB_ONE}

\* parent1.crossover(&parent2, rate), the parents having been evaluated before
Crossover ==
    /\ out = NoCall
    /\ \E c1 \in CharSeqs, c2 \in CharSeqs, rate \in Rates :
          LET parent1 == [chars |-> c1, fitness |-> ONE]
              parent2 == [chars |-> c2, fitness |-> ZERO]
          IN  \E children \in CrossoverOutcomes(parent1, parent2, rate) :
                 out' = [op      |-> "crossover",
                         parent1 |-> parent1,
                         parent2 |-> parent2,
                         rate    |-> rate,
                         child1  |-> children[1],
                         child2  |-> children[2]]
    /\ UNCHANGED <<inputVars, poolVars, generateVars, engineVars>>

SpecCrossover == InitIndividuals /\ [][Crossover]_vars

----------------------------------------------------------------------------
(* Claims about the genetic operators and the engine *)

\* C5: crossover of two parents of equal length at rate 1.0 gives child1 the second
\* parent's sequence and child2 the first parent's; at rate 0.0 each child has its
\* own parent's sequence.
C5_CrossoverExtremes ==
    out.op = "crossover" /\ Len(out.parent1.chars) = Len(out.parent2.chars) =>
        /\ out.rate = PROB_ONE =>
              /\ out.child1.chars = out.parent2.chars
              /\ out.child2.chars = out.parent1.chars
        /\ out.rate = 0 =>
              /\ out.child1.chars = out.parent1.chars
              /\ out.child2.chars = out.parent2.chars

\* two different parents of MaxLen characters were crossed at rate 1.0
C5_Witness ==
    /\ out.op = "crossover"
    /\ out.rate = PROB_ONE
    /\ Len(out.parent1.chars) = MaxLen
    /\ Len(out.parent2.chars) = MaxLen
    /\ \A i \in 1..MaxLen : out.parent1.chars[i] # out.parent2.chars[i]
    /\ out.child1.chars = out.parent2.chars

\* C6: in every state of the engine, every individual of the population has exactly
\* width*height characters and each of them is an allowed character.
C6_IndividualsWellFormed ==
    \A i \in 1..Len(population) :
        /\ Len(population[i].chars) = width * height
        /\ \A k \in 1..Len(population[i].chars) : population[i].chars[k] \in Alphabet

\* a generation bred by crossover and mutation holds a space next to a non-space
C6_Witness ==
    /\ generation >= 1
    /\ pc = "evaluate"
    /\ \E i \in 1..Len(population) :
          /\ population[i].chars[1] = SPACE
          /\ population[i].chars[2] # SPACE

\* C7: the population has population_size individuals after construction and after
\* every create_new_generation and evaluate_population, odd sizes included.
C7_PopulationSizeConstant == Len(population) = population_size

\* a generation was bred for an odd population size
C7_Witness ==
    /\ generation >= 1
    /\ pc = "evaluate"
    /\ population_size % 2 = 1
    /\ Len(population) = population_size

\* C8: the elite count is floor(population_size / 10), less than population_size,
\* and create_new_generation puts at the first elite-count places of the new
\* population the individuals of the same places of the old one, characters and
\* fitness unchanged.
EliteStep ==
    pc = "breed" /\ pc' = "evaluate" =>
        /\ elite_size = population_size \div 10
        /\ elite_size < population_size
        /\ \A i \in 1..elite_size : population'[i] = population[i]

C8_EliteCopied == [][EliteStep]_vars

\* a generation was bred whose first individual is an elite with its fitness kept,
\* followed by children that are not evaluated yet
C8_Witness ==
    /\ pc = "evaluate"
    /\ generation = 1
    /\ elite_size = 1
    /\ population[1].fitness = ONE
    /\ \A i \in 2..Len(population) : population[i].fitness = ZERO

\* C9: tournament_selection returns a copy of a member of the population, the
\* fittest of the three it drew (with replacement); its fitness is at least 0 and
\* the population is unchanged.
TournamentStep ==
    out'.op = "tournament_selection" /\ out.op = "none" =>
        /\ population' = population
        /\ \E k \in 1..tournament_size : out'.selected = population[out'.draws[k]]
        /\ \A k \in 1..tournament_size : FLeq(population[out'.draws[k]].fitness, out'.selected.fitness)
        /\ FLeq(ZERO, out'.selected.fitness)

C9_TournamentSelection == [][TournamentStep]_vars

\* a tournament whose first draw was beaten by a later one
C9_Witness ==
    /\ out.op = "tournament_selection"
    /\ FLess(population[out.draws[1]].fitness, out.selected.fitness)
    /\ out.selected = population[out.draws[3]]

\* the population with every fitness computed, in the order before the sort
Evaluated(pop) == [i \in 1..Len(pop) |-> [pop[i] EXCEPT !.fitness = FitnessOf(pop[i].chars)]]

\* the individuals of a population that have a given fitness, in order
WithFitness(pop, f) ==
    LET Has(x) == x.fitness = f
    IN  SelectSeq(pop, Has)

\* C10: after every evaluate_population the population is in non-increasing order
\* of fitness, and individuals of equal fitness are in the order they had before.
SortStep ==
    pc \in {"evaluate", "final"} /\ pc' \in {"breed", "done"} =>
        /\ \A i \in 1..(Len(population') - 1) :
              FLeq(population'[i + 1].fitness, population'[i].fitness)
        /\ \A i \in 1..Len(population') :
              WithFitness(population', population'[i].fitness)
                  = WithFitness(Evaluated(population), population'[i].fitness)
        /\ Len(population') = Len(population)

C10_SortedStable == [][SortStep]_vars

\* an evaluated population in which two different individuals tie
C10_Witness ==
    /\ pc = "breed"
    /\ Len(population) >= 2
    /\ population[1].fitness = population[2].fitness
    /\ population[1].chars # population[2].chars
    /\ population[1].fitness # ZERO

----------------------------------------------------------------------------
(* Claims about evolve as a whole *)

\* C11: the individual evolve returns is at least as fit as every individual
\* evaluated in any generation of the run, for every population size >= 1 and
\* every generation count >= 1.
C11_ReturnsBestFound ==
    pc = "done" => FLeq(best_evaluated, result.fitness)

\* C12: with generation count 0 (continuous mode) evolve keeps producing and
\* evaluating generations until the caller cancels; it neither returns nor fails
\* at once without running a generation.  (evolve has no way to be cancelled, so
\* a run with generation count 0 that ends at all ends uncancelled.)
C12_ContinuousModeKeepsRunning ==
    generations = 0 => pc \notin {"done", "panicked"}

\* C13: the genetic engine invokes the caller's progress callback exactly once per
\* generation, after that generation's evaluation and sort (and stops creating
\* generations once the callback returns false): when generation g has been
\* evaluated and sorted, the callback has been invoked g + 1 times.
C13_CallbackOncePerGeneration ==
    pc = "breed" => Len(progress_calls) = generation + 1

\* every character of chars is the space
AllSpaces(chars) == \A k \in 1..Len(chars) : chars[k] = SPACE

\* C19: an engine constructed without a seed character on a target with no
\* foreground pixel (background probability 1) holds only all-space individuals in
\* every generation, and evolve returns the all-space grid.
C19_BlankTargetAllSpaces ==
    (init_char = NoSeed /\ total_non_background_pixels = 0 /\ pc # "idle") =>
        /\ \A i \in 1..Len(population) : AllSpaces(population[i].chars)
        /\ pc = "done" => AllSpaces(result.chars) /\ Len(result.chars) = width * height

\* evolve has returned after breeding a generation from all-space parents, in
\* dark-on-light mode on the all-white target
C19_Witness ==
    /\ pc = "done"
    /\ init_char = NoSeed
    /\ total_non_background_pixels = 0
    /\ white_background
    /\ generation >= 2
    /\ population_size >= 2
    /\ AllSpaces(result.chars)

----------------------------------------------------------------------------
(* SpecGenerate: the brute-force search engine, from construction through generate *)

\* the loop of find_best_char_for_position over ALLOWED_CHARS from its k-th
\* character on, keeping the last character that is at least as fit
RECURSIVE LastBestCharFrom(_, _, _, _, _, _, _, _)
LastBestCharFrom(cache, target, row, col, thr, k, best_char, best_fitness) ==
    IF k > Len(ALLOWED_CHARS) THEN best_char
    ELSE LET test_char == ALLOWED_CHARS[k]
             fitness == calculate_fitness_for_position(cache, target, row, col, test_char, thr)
         IN  IF FLeq(best_fitness, fitness)
             THEN LastBestCharFrom(cache, target, row, col, thr, k + 1, test_char, fitness)
             ELSE LastBestCharFrom(cache, target, row, col, thr, k + 1, best_char, best_fitness)

find_last_best_char_for_position(cache, target, row, col, current_chars, pos, thr) ==
    LastBestCharFrom(cache, target, row, col, thr, 1, SPACE, ZERO)

\* the loop of find_best_char_for_position over ALLOWED_CHARS from its k-th character on
RECURSIVE BestCharFrom(_, _, _, _, _, _, _, _)
BestCharFrom(cache, target, row, col, thr, k, best_char, best_fitness) ==
    IF k > Len(ALLOWED_CHARS) THEN best_char
    ELSE LET test_char == ALLOWED_CHARS[k]
             fitness == calculate_fitness_for_position(cache, target, row, col, test_char, thr)
         IN  IF FLess(best_fitness, fitness)
             THEN BestCharFrom(cache, target, row, col, thr, k + 1, test_char, fitness)
             ELSE BestCharFrom(cache, target, row, col, thr, k + 1, best_char, best_fitness)

\* no character is returned: test_chars[position] is out of bounds and panics
NoChar == -1

\* find_best_char_for_position that keeps the character the grid already has unless
\* another one scores more
find_best_char_keeping_current(cache, target, row, col, current_chars, pos, thr) ==
    LET kept == current_chars[pos + 1]
    IN  BestCharFrom(cache, target, row, col, thr, 1, kept,
                         calculate_fitness_for_position(cache, target, row, col, kept, thr))

\* BruteForceGenerator::find_best_char_for_position: current_chars and position
\* only feed test_chars, the copy with the tested character written at position,
\* which nothing reads
find_best_char_for_position(cache, target, row, col, current_chars, pos, thr) ==
    IF pos >= Len(current_chars) THEN NoChar
    ELSE BestCharFrom(cache, target, row, col, thr, 1, SPACE, ZERO)

total_positions == width * height

\* the targets of the brute-force runs: every cell is blank, white, half inked or grey
CellPixels == {<<0, 0>>, <<255, 255>>, <<255, 0>>, <<100, 200>>}

GenerateTargets(w, h) ==
    {[w |-> w * char_width, h |-> h * char_height,
      px |-> [k \in 1..(w * char_width * h * char_height) |->
                 cells[((k - 1) \div char_width) + 1][((k - 1) % char_width) + 1]]] :
        cells \in [1..(w * h) -> CellPixels]}

\* BruteForceGenerator::new, and the arguments of generate
InitGenerate(w, h, targets, fonts) ==
    /\ white_background \in BOOLEAN
    /\ char_cache \in fonts
    /\ width = w
    /\ height = h
    /\ target_image \in targets
    /\ out = NoCall
    /\ population = <<>>
    /\ population_size = 0
    /\ init_char = NoSeed
    /\ generations = 0
    /\ generation = 0
    /\ best_evaluated = ZERO
    /\ pc = "generator"
    /\ result = <<>>
    /\ best_chars = <<>>
    /\ position = 0
    /\ progress_callback \in {"None", "Some"}
    /\ progress_calls = <<>>
    /\ evolve_calls = <<>>
    /\ PoolIdle

\* generate is called: best_chars starts as all spaces
Generate ==
    /\ pc = "generator"
    /\ best_chars' = [i \in 1..total_positions |-> SPACE]
    /\ position' = 0
    /\ pc' = IF 0 < total_positions THEN "position" ELSE "finish"
    /\ UNCHANGED <<inputVars, poolVars, engineVarsButPc, out, progress_callback, progress_calls>>

\* the write of the loop body with the decided character put at the front
set_first_char(chars, pos, best_char) == [chars EXCEPT ![1] = best_char]

\* best_chars[position as usize] = best_char
set_best_char(chars, pos, best_char) == [chars EXCEPT ![pos + 1] = best_char]

\* the callback's arguments with the index of the position as steps_done
progress_call_from_zero(pos, should_continue) ==
    [steps_done      |-> pos,
     steps_total     |-> total_positions,
     progress        |-> FDiv(pos * SCALE, total_positions),
     width           |-> width,
     height          |-> height,
     should_continue |-> should_continue]

\* the invocation of the callback after position pos: its arguments (but for the
\* elapsed time and the preview) and its answer
progress_call(pos, should_continue) ==
    [steps_done      |-> pos + 1,
     steps_total     |-> total_positions,
     progress        |-> FDiv((pos + 1) * SCALE, total_positions),
     width           |-> width,
     height          |-> height,
     should_continue |-> should_continue]

\* a loop that goes on to the next position whatever the callback answered
loop_ignoring_callback(pos, should_continue) ==
    IF pos + 1 < total_positions THEN "position" ELSE "finish"

\* where generate goes after position pos: `break` when the callback answered
\* false, the next position if there is one, the end of the loop otherwise
loop_after(pos, should_continue) ==
    IF should_continue /\ pos + 1 < total_positions THEN "position" ELSE "finish"

\* one iteration of generate's loop: the position is decided, the callback (if
\* any) is invoked and its answer, which is the caller's, ends the loop or not
DecidePosition ==
    /\ pc = "position"
    /\ LET row == position \div width
           col == position % width
           best_char == find_best_char_for_position(char_cache, target_image, row, col,
                                                    best_chars, position, threshold)
       IN  best_chars' = set_best_char(best_chars, position, best_char)
    /\ \E should_continue \in BOOLEAN :
          /\ progress_callback = "None" => should_continue
          /\ progress_calls' =
                IF progress_callback = "Some"
                THEN Append(progress_calls, progress_call(position, should_continue))
                ELSE progress_calls
          /\ pc' = loop_after(position, should_continue)
    /\ position' = position + 1
    /\ UNCHANGED <<inputVars, poolVars, engineVarsButPc, out, progress_callback>>

\* after the loop: the whole-grid fitness of best_chars, and the return
FinishGenerate ==
    /\ pc = "finish"
    /\ result' = [chars   |-> best_chars,
                  fitness |-> bf_calculate_fitness(best_chars, char_cache, target_image,
                                                   width, height,
                                                   bf_total_non_background_pixels, threshold)]
    /\ pc' = "generated"
    /\ UNCHANGED <<inputVars, poolVars, population, population_size, init_char, generations,
                   generation, best_evaluated, evolve_calls, out, generateVars>>

NextGenerate == Generate \/ DecidePosition \/ FinishGenerate

InitBruteForce == InitGenerate(2, 2, GenerateTargets(2, 2), Fonts)

SpecGenerate == InitBruteForce /\ [][NextGenerate]_vars

----------------------------------------------------------------------------
(* Claims about the brute-force search engine (SpecGenerate) *)

\* the whole-grid fitness the brute-force evaluator gives a grid
GridFitness(chars) ==
    bf_calculate_fitness(chars, char_cache, target_image, width, height,
                         bf_total_non_background_pixels, threshold)

\* the callback has answered false at its k-th invocation
Cancelled(k) == k \in 1..Len(progress_calls) /\ ~progress_calls[k].should_continue

C14_State ==
    \A k \in 1..Len(progress_calls) :
        Cancelled(k) =>
            /\ progress_calls[k].steps_done = k
            /\ Len(progress_calls) = k
            /\ pc \in {"finish", "generated"}
            /\ Len(best_chars) = width * height
            /\ \A j \in (k + 1)..(width * height) : best_chars[j] = SPACE
            /\ pc = "finish" => result = <<>>
            /\ pc = "generated" =>
                  /\ result.chars = best_chars
                  /\ result.fitness = GridFitness(best_chars)

C14_Step ==
    (\E k \in 1..Len(progress_calls) : Cancelled(k)) =>
        /\ progress_calls' = progress_calls
        /\ best_chars' = best_chars
        /\ result # <<>> => result' = result

\* C14: once the callback has answered false after position k (steps_done = k), no
\* later position is decided (they keep their initial space), the callback is not
\* invoked again, and generate returns a grid of width*height characters whose
\* whole-grid fitness is computed once.
C14_CancelStopsGenerate == []C14_State /\ [][C14_Step]_vars

\* generate has returned after the callback answered false at the second of four
\* positions, the first two positions having been given a non-space character
C14_Witness ==
    /\ pc = "generated"
    /\ Cancelled(2)
    /\ best_chars[1] # SPACE
    /\ best_chars[2] # SPACE
    /\ Len(result.chars) = 4

\* the callback has answered true every time so far
AlwaysContinued == \A i \in 1..Len(progress_calls) : progress_calls[i].should_continue

\* C15: with a callback that always answers true, generate invokes it width*height
\* times; the i-th invocation gets steps_done = i, steps_total = width*height,
\* the fraction i / (width*height), which is in (0, 1], and the grid's width and
\* height; the last invocation has steps_done = steps_total.
C15_CallbackArguments ==
    (progress_callback = "Some" /\ AlwaysContinued) =>
        /\ Len(progress_calls) = position
        /\ Len(progress_calls) <= width * height
        /\ pc \in {"finish", "generated"} => Len(progress_calls) = width * height
        /\ \A i \in 1..Len(progress_calls) :
              LET call == progress_calls[i]
              IN  /\ call.steps_done = i
                  /\ call.steps_total = width * height
                  /\ call.progress[1] * (width * height) = i * call.progress[2]
                  /\ FLess(ZERO, call.progress)
                  /\ FLeq(call.progress, ONE)
                  /\ call.width = width
                  /\ call.height = height
                  /\ i > 1 => progress_calls[i - 1].steps_done < call.steps_done

\* generate has returned after four invocations that all answered true
C15_Witness ==
    /\ pc = "generated"
    /\ progress_callback = "Some"
    /\ AlwaysContinued
    /\ Len(progress_calls) = 4
    /\ progress_calls[4].steps_done = progress_calls[4].steps_total

\* the characters that score the most for the cell of position p (0-based)
\* the single-cell fitness of every character of the alphabet for position p (0-based)
PositionFitnesses(p) ==
    [c \in Alphabet |-> calculate_fitness_for_position(char_cache, target_image,
                                                       p \div width, p % width, c, threshold)]

BestForPosition(p) ==
    LET fit == PositionFitnesses(p)
    IN  {c \in Alphabet : \A d \in Alphabet : FLeq(fit[d], fit[c])}

C16_State ==
    pc \in {"position", "finish", "generated"} =>
        /\ Len(best_chars) = width * height
        /\ \A j \in (position + 1)..(width * height) : best_chars[j] = SPACE

C16_Step ==
    pc = "position" =>
        /\ position' = position + 1
        /\ best_chars'[position + 1] \in BestForPosition(position)
        /\ \A j \in 1..Len(best_chars) : j # position + 1 => best_chars'[j] = best_chars[j]

\* C16: generate decides the positions in row-major order 0, 1, ..., width*height-1,
\* writes each position once (the positions not yet reached hold the initial
\* space), and deciding position p leaves every other position as it was.
C16_RowMajorSingleWrite == []C16_State /\ [][C16_Step]_vars

\* the last position of the second row has been decided and holds a non-space
\* character next to an earlier position that kept its space
C16_Witness ==
    /\ pc = "finish"
    /\ position = 4
    /\ best_chars[4] # SPACE
    /\ best_chars[3] = SPACE
    /\ best_chars[2] # SPACE

\* the index of character c in ALLOWED_CHARS
AlphabetIndex(c) == CHOOSE k \in 1..Len(ALLOWED_CHARS) : ALLOWED_CHARS[k] = c

\* C17: the character find_best_char_for_position returns for a cell (seen where
\* generate stored it, at the position decided last) is in the
\* alphabet, no character of the alphabet scores more for that cell, and every
\* character before it in alphabet order scores strictly less (so the space is
\* returned when every character scores 0).
C17_FindBestChar ==
    (pc \in {"position", "finish", "generated"} /\ position > 0) =>
        LET p == position - 1
            c == best_chars[p + 1]
            fit == PositionFitnesses(p)
        IN  /\ c \in Alphabet
            /\ \A d \in Alphabet : FLeq(fit[d], fit[c])
            /\ \A k \in 1..(AlphabetIndex(c) - 1) : FLess(fit[ALLOWED_CHARS[k]], fit[c])
            /\ (\A d \in Alphabet : fit[d] = ZERO) => c = SPACE

\* two non-space characters tie for the best score of the cell decided last and
\* the first of them was returned
C17_Witness ==
    /\ pc = "position"
    /\ position = 3
    /\ BestForPosition(2) = NonSpaceChars
    /\ Cardinality(NonSpaceChars) >= 2
    /\ best_chars[3] = ALLOWED_CHARS[2]

\* every pixel of the target is background for the mode
AllBackground ==
    \A k \in 1..Len(target_image.px) :
        target_image.px[k] = IF white_background THEN 255 ELSE 0

\* C18: brute-force search on a target that is all background for the mode (all 0
\* in light-on-dark mode, all 255 in dark-on-light mode) returns the all-space grid.
C18_BlankTargetGivesSpaces ==
    (pc = "generated" /\ AllBackground) =>
        \A j \in 1..Len(result.chars) : result.chars[j] = SPACE

----------------------------------------------------------------------------
(* SpecScenarioA: both engines on a grid of 2 x 2 cells whose target is uniform *)

\* the scenario's alphabet is the space and one inked character: every non-space
\* character of the alphabet renders as that character, a fully inked cell
ScenarioFonts ==
    {f \in Fonts : \A c \in NonSpaceChars : f[c] = [k \in 1..(char_width * char_height) |-> 255]}

\* the uniform targets of 2 x 2 cells: all 0 or all 255
ScenarioTargets ==
    {[w |-> 2 * char_width, h |-> 2 * char_height,
      px |-> [k \in 1..(2 * char_width * 2 * char_height) |-> v]] : v \in {0, 255}}

InitScenarioA ==
    \/ InitEngine(1..MaxPopulation, 2, 2, ScenarioTargets, {NoSeed}, ScenarioFonts,
                  1..MaxGenerations)
    \/ InitGenerate(2, 2, ScenarioTargets, ScenarioFonts)

NextScenarioA == EngineNext \/ NextGenerate

SpecScenarioA == InitScenarioA /\ [][NextScenarioA]_vars

\* every pixel of the target is foreground for the mode
AllForeground ==
    \A k \in 1..Len(target_image.px) :
        is_non_background(target_image.px[k], threshold, white_background)

\* C20: on a target of 2 x 2 cells in which every pixel is foreground, with an
\* alphabet of the space and one inked character ('#'), the genetic engine and
\* the brute-force engine (run to the end, not cancelled) both end with the grid
\* of four inked characters and fitness 1.0.
C20_ScenarioA ==
    (pc \in {"done", "generated"} /\ AllForeground /\ AlwaysContinued) =>
        /\ Len(result.chars) = 4
        /\ \A k \in 1..4 : result.chars[k] \in NonSpaceChars
        /\ result.fitness = ONE

\* the same, confined to light-on-dark mode
ScenarioALightOnDark == white_background \/ C20_ScenarioA

----------------------------------------------------------------------------
(* SpecRender: the renderer's operations applied to character sequences *)

NEWLINE == 10

\* the codes of the texts given to individual_to_string: ' ', '!', 'H', 'i'
TextCodes == {32, 33, 72, 105}

Texts == UNION {[1..n -> TextCodes] : n \in 0..MaxText}

\* the loop of individual_to_string pushing a newline after every full row
RECURSIVE ToStringNewlineAfterRow(_, _, _, _)
ToStringNewlineAfterRow(chars, w, i, text) ==
    IF i >= Len(chars) THEN text
    ELSE ToStringNewlineAfterRow(chars, w, i + 1,
             IF (i + 1) % w = 0 THEN text \o <<chars[i + 1], NEWLINE>>
             ELSE Append(text, chars[i + 1]))

individual_to_string_newline_after_row(chars, w) == ToStringNewlineAfterRow(chars, w, 0, <<>>)

\* the loop of individual_to_string from index i (0-based) on: a string is the
\* sequence of its characters' codes
RECURSIVE ToStringFrom(_, _, _, _)
ToStringFrom(chars, w, i, text) ==
    IF i >= Len(chars) THEN text
    ELSE ToStringFrom(chars, w, i + 1,
             Append(IF i > 0 /\ i % w = 0 THEN Append(text, NEWLINE) ELSE text,
                    chars[i + 1]))

\* AsciiGenerator::individual_to_string (of individual.chars)
individual_to_string(chars, w) == ToStringFrom(chars, w, 0, <<>>)

\* no engine: the run only exercises the renderer
InitRender ==
    /\ white_background \in BOOLEAN
    /\ char_cache \in Fonts
    /\ target_image = NoTarget
    /\ width \in 1..3
    /\ height \in 0..2
    /\ out = NoCall
    /\ EngineIdle
    /\ GenerateIdle
    /\ PoolIdle

\* individual_to_string(&individual, width)
IndividualToString ==
    /\ out = NoCall
    /\ \E chars \in Texts :
          out' = [op    |-> "individual_to_string",
                  chars |-> chars,
                  width |-> width,
                  text  |-> individual_to_string(chars, width)]
    /\ UNCHANGED <<inputVars, poolVars, generateVars, engineVars>>

\* the codes rendered: the space, '>' and a code the cache does not hold
UNCACHED == 200
RenderCodes == {SPACE, 62, UNCACHED}
RenderTexts == UNION {[1..n -> RenderCodes] : n \in 0..MaxText}

\* ImageBuffer::put_pixel
put_pixel(img, x, y, p) == [img EXCEPT !.px[y * img.w + x + 1] = p]

\* the bitmap after ImageBuffer::new and the fill with the background colour
filled_image(w, h, bg_color) == [w |-> w, h |-> h, px |-> [k \in 1..(w * h) |-> bg_color]]

\* the inverted clone of a cached glyph
inverted_img(char_img) == [k \in DOMAIN char_img |-> 255 - char_img[k]]

\* the loops of copy_char_to_image from the k-th pixel of the glyph on
RECURSIVE CopyFrom(_, _, _, _, _)
CopyFrom(target, char_img, start_x, start_y, k) ==
    IF k >= char_width * char_height THEN target
    ELSE LET x == k % char_width
             y == k \div char_width
         IN  IF start_x + x < target.w /\ start_y + y < target.h
             THEN CopyFrom(put_pixel(target, start_x + x, start_y + y, char_img[k + 1]),
                           char_img, start_x, start_y, k + 1)
             ELSE CopyFrom(target, char_img, start_x, start_y, k + 1)

\* copy_char_to_image that copies every glyph to the first cell
copy_char_to_first_cell(target, char_img, start_x, start_y) ==
    CopyFrom(target, char_img, 0, 0, 0)

\* AsciiGenerator::copy_char_to_image
copy_char_to_image(target, char_img, start_x, start_y) ==
    CopyFrom(target, char_img, start_x, start_y, 0)

\* the loop of generate_ascii_image_with_background over chars from index i on
RECURSIVE RenderFrom(_, _, _, _, _, _, _)
RenderFrom(chars, w, h, white, cache, i, image) ==
    IF i >= Len(chars) THEN image
    ELSE LET x == i % w
             y == i \div w
             char_code == chars[i + 1]
         IN  IF y >= h THEN image
             ELSE IF char_code \in DOMAIN cache
             THEN RenderFrom(chars, w, h, white, cache, i + 1,
                             copy_char_to_image(
                                 image,
                                 IF white THEN inverted_img(cache[char_code]) ELSE cache[char_code],
                                 x * char_width, y * char_height))
             ELSE RenderFrom(chars, w, h, white, cache, i + 1, image)

\* generate_ascii_image_with_background, statement by statement
render_ascii_image(chars, w, h, white, cache) ==
    RenderFrom(chars, w, h, white, cache, 0,
               filled_image(w * char_width, h * char_height, IF white THEN 255 ELSE 0))

\* generate_ascii_image_with_background(chars, width, height, white_background)
GenerateAsciiImage ==
    /\ out = NoCall
    /\ \E chars \in RenderTexts :
          out' = [op    |-> "generate_ascii_image",
                  chars |-> chars,
                  image |-> render_ascii_image(chars, width, height, white_background, char_cache)]
    /\ UNCHANGED <<inputVars, poolVars, generateVars, engineVars>>

NextRender == IndividualToString \/ GenerateAsciiImage

SpecRender == InitRender /\ [][NextRender]_vars

----------------------------------------------------------------------------
(* Claims about the renderer (SpecRender) *)

\* C21: individual_to_string with width w >= 1 outputs the characters in order
\* with a newline before every index i > 0 with i mod w = 0 and nowhere else: the
\* character of index i is at index i + i div w of the text, every other place of
\* the text holds a newline, and the text neither starts nor ends with an
\* inserted newline.
C21_IndividualToString ==
    out.op = "individual_to_string" =>
        LET n == Len(out.chars)
            w == out.width
            place(i) == i + (i \div w)
            places == {place(i) : i \in 0..(n - 1)}
        IN  /\ Len(out.text) = IF n = 0 THEN 0 ELSE n + ((n - 1) \div w)
            /\ \A i \in 0..(n - 1) : out.text[place(i) + 1] = out.chars[i + 1]
            /\ \A k \in 0..(Len(out.text) - 1) : k \notin places => out.text[k + 1] = NEWLINE
            /\ \A i \in 1..(n - 1) : (i % w = 0) <=> (place(i) - 1 \notin places)
            /\ n > 0 => /\ out.text[1] = out.chars[1]
                        /\ out.text[Len(out.text)] = out.chars[n]

\* ['H', 'i', '!', ' '] with width 2 gave "Hi\n! "
C21_Witness ==
    /\ out.op = "individual_to_string"
    /\ out.chars = <<72, 105, 33, 32>>
    /\ out.width = 2
    /\ out.text = <<72, 105, NEWLINE, 33, 32>>

----------------------------------------------------------------------------
(* SpecBackground: the background statistics the two constructors compute *)

\* BruteForceGenerator::new: background_threshold
bf_background_threshold(white) == IF white THEN 200 ELSE 50

\* intensities on both sides of the two thresholds
BoundaryLevels == {0, 49, 50, 51, 199, 200, 201, 255}

\* the targets of the statistics: every row of three boundary intensities, and
\* the blank target of 20 x 20 pixels of the tests
BackgroundTargets ==
    {[w |-> 3, h |-> 1, px |-> p] : p \in [1..3 -> BoundaryLevels]}
    \cup {[w |-> 20, h |-> 20, px |-> [k \in 1..400 |-> 0]]}

InitBackground ==
    /\ white_background \in BOOLEAN
    /\ char_cache = [c \in Alphabet |-> BlankGlyph]
    /\ target_image \in BackgroundTargets
    /\ width = 2
    /\ height = 2
    /\ out = NoCall
    /\ EngineIdle
    /\ GenerateIdle
    /\ PoolIdle

\* GeneticAlgorithm::new and BruteForceGenerator::new on the same target and
\* mode: the threshold and the count each of them stores
BackgroundStatistics ==
    /\ out = NoCall
    /\ out' = [op           |-> "background_statistics",
               ga_threshold |-> background_threshold(white_background),
               ga_count     |-> ga_count_non_background_pixels(
                                    target_image, background_threshold(white_background),
                                    white_background),
               bf_threshold |-> bf_background_threshold(white_background),
               bf_count     |-> bf_count_non_background_pixels(
                                    target_image, bf_background_threshold(white_background),
                                    white_background)]
    /\ UNCHANGED <<inputVars, poolVars, generateVars, engineVars>>

SpecBackground == InitBackground /\ [][BackgroundStatistics]_vars

\* C22: the threshold is 50 in light-on-dark mode and 200 in dark-on-light mode;
\* the foreground count is the number of pixels strictly above 50, respectively
\* strictly below 200; the blank target of 20 x 20 pixels counts 0 in
\* light-on-dark mode and 400 in dark-on-light mode; the two engines compute the
\* same threshold and the same count.
C22_BackgroundStatistics ==
    out.op = "background_statistics" =>
        LET px == target_image.px
        IN  /\ ~white_background =>
                  /\ out.ga_threshold = 50
                  /\ out.ga_count = Cardinality({k \in 1..Len(px) : px[k] >= 51})
            /\ white_background =>
                  /\ out.ga_threshold = 200
                  /\ out.ga_count = Cardinality({k \in 1..Len(px) : px[k] <= 199})
            /\ (Len(px) = 400 /\ \A k \in 1..400 : px[k] = 0) =>
                  out.ga_count = IF white_background THEN 400 ELSE 0
            /\ out.bf_threshold = out.ga_threshold
            /\ out.bf_count = out.ga_count

\* the statistics of the blank 20 x 20 target in dark-on-light mode
C22_Witness ==
    /\ out.op = "background_statistics"
    /\ white_background
    /\ target_image.w = 20
    /\ target_image.h = 20
    /\ out.bf_count = 400

----------------------------------------------------------------------------
(* SpecSeed: Individual::new_with_init_char applied to every seed character *)

\* the seed characters tried, as code points: ' ', '<', '>', 'z', and the
\* characters U+0120, U+013C, U+013E, U+017A, whose low bytes are those four
SeedChars == {32, 60, 62, 122, 288, 316, 318, 378}

\* Individual::new_with_init_char(size, init_char)
NewWithInitChar ==
    /\ out = NoCall
    /\ \E size \in 0..(MaxLen + 1), ch \in SeedChars :
          \E individual \in new_with_init_char(size, ch) :
              out' = [op         |-> "new_with_init_char",
                      size       |-> size,
                      init_char  |-> ch,
                      init_byte  |-> init_byte(ch),
                      individual |-> individual]
    /\ UNCHANGED <<inputVars, poolVars, generateVars, engineVars>>

SpecSeed == InitIndividuals /\ [][NewWithInitChar]_vars

\* C23: for every seed character given to new_with_init_char, code points above
\* 255 included, a character that is not in the alphabet is replaced by the space
\* as the seed; every position of the individual holds the effective seed or a
\* character of the alphabet, the length is the requested size and the fitness 0.
C23_InvalidSeedBecomesSpace ==
    out.op = "new_with_init_char" =>
        /\ out.init_byte = IF out.init_char \in Alphabet THEN out.init_char ELSE SPACE
        /\ Len(out.individual.chars) = out.size
        /\ \A k \in 1..out.size :
              out.individual.chars[k] \in Alphabet \cup {out.init_byte}
        /\ out.individual.fitness = ZERO

\* the same for the seed characters that fit a byte
SeedWithinByte ==
    (out.op = "new_with_init_char" /\ out.init_char > 255) \/ C23_InvalidSeedBecomesSpace

-----------------------------------------------------------------------------
\* evolve from its call to its return

\* the number of passes of one kind that evolve has made
CountCalls(calls, name) == Cardinality({i \in DOMAIN calls : calls[i] = name})

\* a returned run of N >= 1 generations made N iterations, N + 1 evaluations and
\* N - 1 creations, evaluated last, and returned the head of the population
C26_State ==
    /\ generations >= 1 =>
          /\ generation <= generations
          /\ CountCalls(evolve_calls, "create_new_generation") <= generations - 1
    /\ (pc = "done" /\ generations >= 1) =>
        /\ generation = generations
        /\ CountCalls(evolve_calls, "evaluate_population") = generations + 1
        /\ CountCalls(evolve_calls, "create_new_generation") = generations - 1
        /\ Len(evolve_calls) = 2 * generations
        /\ evolve_calls[Len(evolve_calls)] = "evaluate_population"
        /\ evolve_calls[Len(evolve_calls) - 1] = "evaluate_population"
        /\ result = population[1]

\* the steps evolve has still to make: one per pass, one per loop exit, one for
\* the call
StepsLeft ==
    CASE pc = "constructed" -> 2 * generations + 2
      [] pc = "evaluate"    -> 2 * (generations - generation) + 1
      [] pc = "breed"       -> 2 * (generations - generation)
      [] pc = "final"       -> 1
      [] OTHER              -> 0

\* a run that has not returned can make its next step
C26_CanProceed ==
    /\ pc = "constructed" => ENABLED Evolve
    /\ (pc = "breed" /\ breeds_after_generation(generation, generations)) =>
          create_new_generation(population, population_size, elite_size, background_prob) # {}
    /\ pc \in {"evaluate", "final"} => Len(evaluate_population(population)) = Len(population)

\* every step of the run brings the return one step nearer
C26_Step ==
    (generations >= 1 /\ pc' # pc) =>
        /\ StepsLeft' = StepsLeft - 1
        /\ pc' # "panicked"

\* C26: evolve with N >= 1 generations and a population of at least one
\* terminates: it makes exactly N loop iterations, N + 1 evaluation passes and
\* N - 1 create_new_generation steps, none of them after the last evaluated
\* generation, and then returns population[0].
C26_EvolveTerminates == [](C26_State /\ C26_CanProceed) /\ [][C26_Step]_vars

\* a run of two generations has returned after one creation
C26_Witness ==
    /\ pc = "done"
    /\ generations = 2
    /\ Len(population) >= 1
    /\ evolve_calls = <<"evaluate_population", "create_new_generation",
                        "evaluate_population", "evaluate_population">>

-----------------------------------------------------------------------------
\* crossover, gene by gene

\* C29: crossover at any rate conserves the genes position by position: at every
\* position below the shorter parent's length the children hold the parents' two
\* characters, either in place or swapped; child1 has parent1's length and child2
\* parent2's; the positions beyond the shorter length are copied from the child's
\* own parent; both children have fitness 0; the parents are unchanged.
C29_CrossoverConservesGenes ==
    out.op = "crossover" =>
        LET p1 == out.parent1.chars
            p2 == out.parent2.chars
            c1 == out.child1.chars
            c2 == out.child2.chars
            n  == Min(Len(p1), Len(p2))
        IN  /\ Len(c1) = Len(p1)
            /\ Len(c2) = Len(p2)
            /\ \A i \in 1..n : \/ c1[i] = p1[i] /\ c2[i] = p2[i]
                               \/ c1[i] = p2[i] /\ c2[i] = p1[i]
            /\ \A i \in (n + 1)..Len(p1) : c1[i] = p1[i]
            /\ \A i \in (n + 1)..Len(p2) : c2[i] = p2[i]
            /\ out.child1.fitness = ZERO
            /\ out.child2.fitness = ZERO
            /\ out.parent1.fitness = ONE
            /\ out.parent2.fitness = ZERO

\* parents of different lengths were crossed at the engine's rate, the first
\* position was swapped and the longer parent's last character was copied
C29_Witness ==
    /\ out.op = "crossover"
    /\ out.rate = crossover_rate
    /\ Len(out.parent1.chars) = MaxLen
    /\ Len(out.parent2.chars) = 1
    /\ out.parent1.chars[1] # out.parent2.chars[1]
    /\ out.child1.chars[1] = out.parent2.chars[1]
    /\ out.child2.chars[1] = out.parent1.chars[1]
    /\ out.child1.chars[MaxLen] = out.parent1.chars[MaxLen]
    /\ out.child1.fitness = ZERO

-----------------------------------------------------------------------------
\* the two whole-grid evaluators compared (SpecFitness)

\* C28: BruteForceGenerator::calculate_fitness uses the same method as the genetic
\* engine's evaluator: for every grid, target bitmap and mode the two functions
\* return the same value.
C28_SameFitness ==
    out.op = "both_fitness" => out.ga_fitness = out.bf_fitness

\* the two evaluators agree on every grid that lights no background pixel, and the
\* brute-force value is never the lower one
SameFitnessWithoutFalsePositive ==
    out.op = "both_fitness" =>
        /\ out.false_positives = {} => out.ga_fitness = out.bf_fitness
        /\ FLeq(out.ga_fitness, out.bf_fitness)

-----------------------------------------------------------------------------
(* SpecSearch: find_best_char_for_position called with any grid as current_chars,
   and the positions of a grid decided in any order *)

InitSearch ==
    /\ InitGenerate(2, 1, GenerateTargets(2, 1), Fonts)
    /\ progress_callback = "None"

\* find_best_char_for_position for one cell, called with two grids
FindBestChar ==
    /\ out = NoCall
    /\ \E pos \in 0..(total_positions - 1) :
       \E current_chars \in Grids(total_positions), other_chars \in Grids(total_positions) :
          out' = [op            |-> "find_best_char",
                  position      |-> pos,
                  current_chars |-> current_chars,
                  other_chars   |-> other_chars,
                  best_char     |-> find_best_char_for_position(
                                        char_cache, target_image, pos \div width, pos % width,
                                        current_chars, pos, threshold),
                  other_best    |-> find_best_char_for_position(
                                        char_cache, target_image, pos \div width, pos % width,
                                        other_chars, pos, threshold)]
    /\ UNCHANGED <<inputVars, poolVars, generateVars, engineVars>>

\* every order in which the positions of the grid can be processed
ProcessingOrders ==
    {order \in [1..total_positions -> 0..(total_positions - 1)] :
        \A i, j \in 1..total_positions : i # j => order[i] # order[j]}

\* the loop body of generate applied to the positions in the given order
RECURSIVE DecideInOrder(_, _, _)
DecideInOrder(order, k, chars) ==
    IF k > Len(order) THEN chars
    ELSE LET pos == order[k]
             best_char == find_best_char_for_position(
                              char_cache, target_image, pos \div width, pos % width,
                              chars, pos, threshold)
         IN  DecideInOrder(order, k + 1, set_best_char(chars, pos, best_char))

\* the search run over the positions in one order, from the all-space grid
SearchInOrder ==
    /\ out = NoCall
    /\ \E order \in ProcessingOrders :
          out' = [op    |-> "search_in_order",
                  order |-> order,
                  chars |-> DecideInOrder(order, 1, [i \in 1..total_positions |-> SPACE])]
    /\ UNCHANGED <<inputVars, poolVars, generateVars, engineVars>>

NextSearch == FindBestChar \/ SearchInOrder

SpecSearch == InitSearch /\ [][NextSearch]_vars

\* the grid generate's own order, position 0 upwards, ends with
RowMajorGrid ==
    DecideInOrder([i \in 1..total_positions |-> i - 1], 1, [i \in 1..total_positions |-> SPACE])

\* C30: the character the brute-force search chooses for a cell depends only on
\* that cell's region of the target, not on current_chars:
\* find_best_char_for_position returns the same character for every value of
\* current_chars, so the final grid is the same for any processing order.
C30_IndependentOfCurrentChars ==
    /\ out.op = "find_best_char" =>
          /\ out.best_char = out.other_best
          /\ out.best_char \in Alphabet
    /\ out.op = "search_in_order" => out.chars = RowMajorGrid

\* the search was called for a cell where every character scores 0, once with a
\* grid that has a non-space character there and once with a grid that has the
\* space, and returned the space both times
C30_Witness ==
    /\ out.op = "find_best_char"
    /\ out.current_chars[out.position + 1] # SPACE
    /\ out.other_chars[out.position + 1] = SPACE
    /\ out.current_chars # out.other_chars
    /\ out.best_char = SPACE
    /\ \A c \in Alphabet :
          calculate_fitness_for_position(char_cache, target_image, out.position \div width,
                                         out.position % width, c, threshold) = ZERO

-----------------------------------------------------------------------------
\* the rendered bitmap, cell by cell (SpecRender)

\* the value the claim gives pixel (dx, dy) of cell i of the bitmap
CellPixel(chars, i, dx, dy) ==
    IF i < Len(chars) /\ chars[i + 1] \in DOMAIN char_cache
    THEN LET p == char_cache[chars[i + 1]][dy * char_width + dx + 1]
         IN  IF white_background THEN 255 - p ELSE p
    ELSE IF white_background THEN 255 ELSE 0

\* C27: generate_ascii_image_with_background(chars, width, height, white) returns
\* a bitmap of exactly (width * cell_width) x (height * cell_height) pixels; for
\* every index i < width * height whose code is cached, the cell at pixel offset
\* ((i mod width) * cell_width, (i div width) * cell_height) equals the cached
\* glyph, each pixel p replaced by 255 - p when white is set; codes at indices
\* >= width * height are ignored, and cells with no code or an uncached code
\* keep the background intensity (0, or 255 when white).
C27_RenderedBitmap ==
    out.op = "generate_ascii_image" =>
        /\ out.image.w = width * char_width
        /\ out.image.h = height * char_height
        /\ Len(out.image.px) = width * char_width * height * char_height
        /\ \A i \in 0..(width * height - 1) :
           \A dx \in 0..(char_width - 1), dy \in 0..(char_height - 1) :
              get_pixel(out.image, (i % width) * char_width + dx,
                                   (i \div width) * char_height + dy)
                 = CellPixel(out.chars, i, dx, dy)
        /\ out.image = render_ascii_image(SubSeq(out.chars, 1, Min(Len(out.chars), width * height)),
                                          width, height, white_background, char_cache)

\* a grid of one column and two rows was rendered on white from three codes: the
\* inverted glyph in the first cell, an uncached code in the second, a code too many
C27_Witness ==
    /\ out.op = "generate_ascii_image"
    /\ white_background
    /\ width = 1
    /\ height = 2
    /\ char_cache[62] = <<255, 0>>
    /\ out.chars = <<62, UNCACHED, 62>>
    /\ out.image.px = <<0, 255, 255, 255>>

\* the statement-by-statement renderer and the per-pixel formula the evaluators
\* use give the same bitmap
RenderersAgree ==
    out.op = "generate_ascii_image" =>
        out.image = generate_ascii_image_with_background(out.chars, width, height,
                                                         white_background, char_cache)

-----------------------------------------------------------------------------
(* SpecPool: engines constructed one after another in one process, each asking
   rayon for the process-wide pool *)

\* the largest number of worker threads asked for
MaxThreads == 2

\* the thread counts a caller passes: 0 lets rayon choose
ThreadCounts == 0..MaxThreads

\* rayon's ThreadPoolBuilder::num_threads(thread_count).build_global(): the
\* outcome and the pool afterwards.  The pool is set once; a later call fails with
\* GlobalPoolAlreadyInitialized and sets nothing; the first call can fail to
\* spawn its threads.
build_global(pool, thread_count) ==
    IF pool # NoPool THEN {[result |-> "GlobalPoolAlreadyInitialized", pool |-> pool]}
    ELSE {[result |-> "Ok", pool |-> n] :
             n \in IF thread_count = 0 THEN 1..MaxThreads ELSE {thread_count}}
         \cup {[result |-> "IOError", pool |-> NoPool]}

\* a constructor that panics on every error of build_global
panic_on_any_error(build_result) ==
    IF build_result = "Ok" THEN "constructed" ELSE "panicked"

\* the if let Err(e) of GeneticAlgorithm::new: the Debug text of the error
\* names its kind, and only GlobalPoolAlreadyInitialized is let through
after_build_global(build_result) ==
    IF build_result = "Ok" THEN "constructed"
    ELSE IF build_result = "GlobalPoolAlreadyInitialized" THEN "constructed"
    ELSE "panicked"

PoolTargets ==
    {[w |-> 2, h |-> 1, px |-> p] : p \in {<<0, 0>>, <<255, 255>>, <<0, 255>>}}

\* the process has started and no engine has been constructed
InitPool ==
    /\ white_background \in BOOLEAN
    /\ char_cache \in EliteFonts
    /\ width = 1
    /\ height = 1
    /\ target_image \in PoolTargets
    /\ population = <<>>
    /\ population_size = 0
    /\ init_char = NoSeed
    /\ generations = 0
    /\ generation = 0
    /\ pc = "start"
    /\ result = <<>>
    /\ out = NoCall
    /\ best_evaluated = ZERO
    /\ evolve_calls = <<>>
    /\ GenerateIdle
    /\ PoolIdle

\* GeneticAlgorithm::new(width, height, population_size, .., thread_count, None, ..)
NewEngine ==
    /\ pc \in {"start", "constructed"}
    /\ \E size \in 1..MaxPopulation, thread_count \in ThreadCounts :
       \E built \in build_global(thread_pool, thread_count) :
          /\ thread_pool' = built.pool
          /\ pc' = after_build_global(built.result)
          /\ out' = [op           |-> "new",
                     thread_count |-> thread_count,
                     pool_before  |-> thread_pool,
                     build_global |-> built.result]
          /\ IF pc' = "constructed"
             THEN /\ population_size' = size
                  /\ population' \in [1..size ->
                                         InitialIndividuals(width * height, NoSeed, background_prob)]
             ELSE UNCHANGED <<population, population_size>>
    /\ UNCHANGED <<inputVars, generateVars, fitness_values, init_char, generations, generation,
                   result, best_evaluated, evolve_calls>>

SpecPool == InitPool /\ [][NewEngine]_vars

\* a construction that finds the pool initialized succeeds and leaves the pool as
\* it was; every other failure of build_global aborts
C24_State ==
    out.op = "new" =>
        /\ out.pool_before # NoPool =>
              /\ out.build_global = "GlobalPoolAlreadyInitialized"
              /\ pc = "constructed"
              /\ thread_pool = out.pool_before
              /\ Len(population) = population_size
        /\ out.build_global \notin {"Ok", "GlobalPoolAlreadyInitialized"} => pc = "panicked"

\* once the pool is initialized no construction changes it or aborts
C24_Step ==
    thread_pool # NoPool => (thread_pool' = thread_pool /\ pc' = "constructed")

\* C24: constructing an engine when the process-wide worker pool is already
\* initialized succeeds without error and leaves the pool's configuration
\* unchanged, the second worker count being ignored; any other failure to
\* construct the pool aborts the run.
C24_PoolAlreadyInitialized == []C24_State /\ [][C24_Step]_vars

\* a second engine asked for another number of threads than the pool has and was
\* constructed
C24_Witness ==
    /\ out.op = "new"
    /\ out.pool_before = 1
    /\ out.thread_count = 2
    /\ out.build_global = "GlobalPoolAlreadyInitialized"
    /\ thread_pool = 1
    /\ pc = "constructed"

\* a first construction that fails to spawn its threads aborts
C24_AbortReached ==
    /\ out.op = "new"
    /\ out.build_global = "IOError"
    /\ pc = "panicked"

-----------------------------------------------------------------------------
(* SpecParallel: evaluate_population with its parallel map, task by task *)

\* one task of the parallel map: the cloned chars, its state, its result and its
\* rank among the tasks that have returned
Task(chars) == [chars |-> chars, state |-> "pending", fitness |-> ZERO, finished |-> 0]

\* the tasks of a map in one state
TasksIn(values, state) == {i \in 1..Len(values) : values[i].state = state}

\* a collect that takes the results in the order the tasks return
store_in_completion_order(values, i, fitness) ==
    LET rank == Cardinality(TasksIn(values, "done")) + 1
    IN  [[values EXCEPT ![i].state = "done", ![i].finished = rank]
            EXCEPT ![rank].fitness = fitness]

\* par_iter().map(..).collect() is indexed: the result of task i is element i
store_fitness(values, i, fitness) ==
    LET rank == Cardinality(TasksIn(values, "done")) + 1
    IN  [values EXCEPT ![i].state = "done", ![i].finished = rank, ![i].fitness = fitness]

\* the targets of the parallel runs: '<' fits the first better than '>' does
ParallelTargets ==
    {[w |-> 2, h |-> 1, px |-> p] : p \in {<<255, 0>>, <<255, 255>>}}

\* an engine of up to MaxPopulation + 1 individuals whose evaluate_population is
\* called, the global pool having 1..MaxThreads workers
InitParallel ==
    /\ white_background = FALSE
    /\ char_cache \in EliteFonts
    /\ width = 1
    /\ height = 1
    /\ target_image \in ParallelTargets
    /\ population_size \in 1..(MaxPopulation + 1)
    /\ init_char = NoSeed
    /\ population \in [1..population_size ->
                          InitialIndividuals(width * height, init_char, background_prob)]
    /\ generations = 1
    /\ generation = 0
    /\ pc = "evaluate"
    /\ result = <<>>
    /\ best_evaluated = ZERO
    /\ evolve_calls = <<>>
    /\ thread_pool \in 1..MaxThreads
    /\ fitness_values = <<>>
    /\ out = NoCall
    /\ GenerateIdle

\* evaluate_population up to par_iter: the chars are cloned into chars_list
BeginEvaluate ==
    /\ pc = "evaluate"
    /\ fitness_values' = [i \in 1..Len(population) |-> Task(population[i].chars)]
    /\ pc' = "mapping"
    /\ UNCHANGED <<inputVars, generateVars, thread_pool, out, engineVarsButPc>>

\* a worker of the pool takes a task
StartTask ==
    /\ pc = "mapping"
    /\ Cardinality(TasksIn(fitness_values, "running")) < thread_pool
    /\ \E i \in TasksIn(fitness_values, "pending") :
          fitness_values' = [fitness_values EXCEPT ![i].state = "running"]
    /\ UNCHANGED <<inputVars, generateVars, thread_pool, out, engineVars>>

\* a task returns the fitness of its chars
FinishTask ==
    /\ pc = "mapping"
    /\ \E i \in TasksIn(fitness_values, "running") :
          fitness_values' = store_fitness(fitness_values, i, FitnessOf(fitness_values[i].chars))
    /\ UNCHANGED <<inputVars, generateVars, thread_pool, out, engineVars>>

\* collect has every result: the fitness values are assigned and the population
\* is sorted
AssignAndSort ==
    /\ pc = "mapping"
    /\ TasksIn(fitness_values, "done") = 1..Len(fitness_values)
    /\ population' = SortDesc([i \in 1..Len(population) |->
                                  [population[i] EXCEPT !.fitness = fitness_values[i].fitness]])
    /\ pc' = "sorted"
    /\ UNCHANGED <<inputVars, generateVars, poolVars, out, population_size, init_char,
                   generations, generation, result, best_evaluated, evolve_calls>>

NextParallel == BeginEvaluate \/ StartTask \/ FinishTask \/ AssignAndSort

SpecParallel == InitParallel /\ [][NextParallel]_vars

\* how many elements of a sequence of individuals or tasks hold the chars c
CountChars(seq, c) == Cardinality({i \in 1..Len(seq) : seq[i].chars = c})

\* until the sort the individuals are as they were; after it each has the
\* fitness of its own chars and the chars are the same ones
C25_State ==
    /\ Cardinality(TasksIn(fitness_values, "running")) <= thread_pool
    /\ pc = "mapping" =>
          \A i \in 1..Len(population) : population[i].chars = fitness_values[i].chars
    /\ pc = "sorted" =>
          /\ Len(population) = Len(fitness_values)
          /\ \A i \in 1..Len(population) :
                /\ population[i].fitness = FitnessOf(population[i].chars)
                /\ CountChars(population, population[i].chars)
                      = CountChars(fitness_values, population[i].chars)

\* the target is never written, and the sort starts when every task has returned
C25_Step ==
    /\ target_image' = target_image
    /\ (pc' = "sorted" /\ pc # "sorted") =>
          \A i \in 1..Len(fitness_values) : fitness_values[i].state = "done"

\* C25: for every worker count and every interleaving of the parallel fitness
\* tasks of evaluate_population, each individual ends with the fitness computed
\* from its own chars, no chars and no target pixel is modified, and the sort
\* starts only after all tasks have completed.
C25_ParallelEvaluation == []C25_State /\ [][C25_Step]_vars

\* three tasks ran on two workers, the last one returned first, and the sort
\* moved the individuals
C25_Witness ==
    /\ pc = "sorted"
    /\ thread_pool = 2
    /\ Len(population) = 3
    /\ fitness_values[3].finished = 1
    /\ population[1].chars # fitness_values[1].chars
    /\ population[1].fitness # population[3].fitness

=============================================================================
